---- MODULE Spec2Model ----
(***************************************************************************)
(* Model of transcribe.py: one transcription job, from argument check to   *)
(* the cleanup block.  Text is modelled as sequences: a file name is a     *)
(* sequence of characters, an error message a sequence of words, so that   *)
(* str.lower(), os.path.splitext and the `x in text` keyword tests are     *)
(* computed, not assumed.                                                  *)
(***************************************************************************)
EXTENDS Integers, Sequences, FiniteSets, TLC

\* Time unit of segment.start: ticks of a tenth of a millisecond per second.
TicksPerSecond == 10000

\* ------------------------------------------------------------------ bounds
\* Largest file size (bytes) the model enumerates; the threshold 100 lies inside.
MaxSize == 100
\* Largest number of segments one transcription yields.
MaxSegments == 2

\* --------------------------------------------------------------- constants
\* transcribe.py:82   if file_size < 100
MinFileSize == 100

\* ------------------------------------------------------------------- text
\* str.lower() on one character / word (transcribe.py:92, 261, 295, 503, 522).
LowerTok(t) ==
  CASE t = "M" -> "m"
    [] t = "P" -> "p"
    [] t = "K" -> "k"
    [] t = "V" -> "v"
    [] t = "T" -> "t"
    [] t = "R" -> "r"
    [] t = "U" -> "u"
    [] t = "E" -> "e"
    [] t = "Y" -> "y"
    [] t = "S" -> "s"
    [] t = "CUDA" -> "cuda"
    [] t = "GPU" -> "gpu"
    [] t = "Audio" -> "audio"
    [] t = "Invalid" -> "invalid"
    [] t = "Original error:" -> "original error:"
    [] t = "Model loading failed:" -> "model loading failed:"
    [] t = "Transcription error:" -> "transcription error:"
    [] t = "Segment processing failed:" -> "segment processing failed:"
    [] OTHER -> t

Lower(s) == [i \in DOMAIN s |-> LowerTok(s[i])]

\* `word in text`: some word of the text is the given one.
Contains(text, word) == \E i \in DOMAIN text : text[i] = word

\* any(x in text for x in words)
ContainsAny(text, words) == \E w \in words : Contains(text, w)

\* transcribe.py:262 and :523, the accelerator keywords.
CudaKeywords == {"cuda", "cudnn", "cublas", "gpu", "out of memory"}

\* ------------------------------------------------------------ validation
\* transcribe.py:91
valid_extensions ==
  { <<".", "m", "p", "3">>, <<".", "m", "p", "4">>, <<".", "w", "a", "v">>,
    <<".", "m", "4", "a">>, <<".", "w", "e", "b", "m">>, <<".", "o", "g", "g">>,
    <<".", "f", "l", "a", "c">>, <<".", "a", "a", "c">>, <<".", "w", "m", "a">>,
    <<".", "m", "k", "v">>, <<".", "a", "v", "i">> }

\* Index of the last "." of a name, 0 when it has none (str.rfind).
LastDot(name) ==
  IF \E i \in DOMAIN name : name[i] = "."
  THEN CHOOSE i \in DOMAIN name :
         name[i] = "." /\ \A j \in DOMAIN name : name[j] = "." => j <= i
  ELSE 0

\* os.path.splitext(file_path)[1]: from the last dot on, provided some
\* character other than a dot comes before it; otherwise empty.
SplitExt(name) ==
  LET d == LastDot(name) IN
    IF d > 0 /\ \E k \in 1..(d - 1) : name[k] # "."
    THEN SubSeq(name, d, Len(name))
    ELSE << >>

\* Mutant: the extension is compared without lower-casing it.
ExtensionAcceptedCaseSensitive(name) == SplitExt(name) \in valid_extensions

\* transcribe.py:92-94
ExtensionAccepted(name) == Lower(SplitExt(name)) \in valid_extensions

\* Mutant: the size floor is applied with <= instead of <.
ValidateInputFileOffByOne(f) ==
  IF ~f.exists THEN [ok |-> FALSE, reason |-> "File not found", warn |-> FALSE]
  ELSE IF ~f.isfile THEN [ok |-> FALSE, reason |-> "Path is not a file", warn |-> FALSE]
  ELSE IF f.sizeErr THEN [ok |-> FALSE, reason |-> "Cannot read file size", warn |-> FALSE]
  ELSE IF f.size = 0 THEN [ok |-> FALSE, reason |-> "File is empty (0 bytes)", warn |-> FALSE]
  ELSE IF f.size <= MinFileSize THEN [ok |-> FALSE, reason |-> "File too small", warn |-> FALSE]
  ELSE [ok |-> TRUE, reason |-> "None", warn |-> ~ExtensionAccepted(f.name)]

\* validate_input_file: the outcome, first rule that applies.  warn is the
\* "Unusual file extension" warning of line 95 (logged, not returned).
ValidateInputFile(f) ==
  IF ~f.exists THEN [ok |-> FALSE, reason |-> "File not found", warn |-> FALSE]
  ELSE IF ~f.isfile THEN [ok |-> FALSE, reason |-> "Path is not a file", warn |-> FALSE]
  ELSE IF f.sizeErr THEN [ok |-> FALSE, reason |-> "Cannot read file size", warn |-> FALSE]
  ELSE IF f.size = 0 THEN [ok |-> FALSE, reason |-> "File is empty (0 bytes)", warn |-> FALSE]
  ELSE IF f.size < MinFileSize THEN [ok |-> FALSE, reason |-> "File too small", warn |-> FALSE]
  ELSE [ok |-> TRUE, reason |-> "None", warn |-> ~ExtensionAccepted(f.name)]

\* ------------------------------------------------------------ extraction
\* What the environment does to one extraction: the `ffmpeg -version` probe
\* (lines 107-116), the conversion run (lines 150-156) and what the tool left
\* at the output path when the run ended.
ExtractEnvs ==
  [probe : {"nonzero", "notfound", "timeout", "oserror"}, run : {"none"}, file : {"absent"}]
  \cup [probe : {"ok"}, run : {"oserror"}, file : {"absent"}]
  \cup [probe : {"ok"}, run : {"rc0", "nonzero", "timeout"},
        file : {"absent", "empty", "nonempty"}]

\* check_ffmpeg_available: "raise" stands for an exception other than
\* FileNotFoundError / TimeoutExpired, which the function does not catch.
CheckFfmpegAvailable(env) ==
  CASE env.probe = "ok" -> "true"
    [] env.probe \in {"nonzero", "notfound", "timeout"} -> "false"
    [] OTHER -> "raise"

\* extract_audio_to_wav: (success, diagnostic), or raised when the probe raised.
ExtractAudioToWav(env) ==
  LET avail == CheckFfmpegAvailable(env) IN
  IF avail = "raise" THEN [raised |-> TRUE, ok |-> FALSE, diag |-> "probe error"]
  ELSE IF avail = "false" THEN [raised |-> FALSE, ok |-> FALSE, diag |-> "ffmpeg not available"]
  ELSE IF env.run = "oserror" THEN [raised |-> FALSE, ok |-> FALSE, diag |-> "exception"]
  ELSE IF env.run = "timeout" THEN [raised |-> FALSE, ok |-> FALSE, diag |-> "Audio extraction timeout"]
  ELSE IF env.run = "nonzero" THEN [raised |-> FALSE, ok |-> FALSE, diag |-> "Audio extraction failed"]
  ELSE IF env.file # "nonempty"
       THEN [raised |-> FALSE, ok |-> FALSE, diag |-> "Audio extraction produced empty or missing file"]
  ELSE [raised |-> FALSE, ok |-> TRUE, diag |-> "None"]

\* ------------------------------------------------------------- GPU probe
\* What the imports and the device query of check_gpu_availability do.
ProbeEnvs ==
  [torch : {"ok", "ImportError", "OSError"}, cuda : BOOLEAN,
   name : {"ok", "RuntimeError"}, nvidia : {"ok", "ImportError", "OSError"}]

\* The second probe, lines 199-205.
CheckCudaLibraries(env, seen) ==
  CASE env.nvidia = "ok" -> [answer |-> "true", raised |-> seen]
    [] env.nvidia = "ImportError" -> [answer |-> "false", raised |-> seen \cup {"ImportError"}]
    [] OTHER -> [answer |-> "raise", raised |-> seen \cup {env.nvidia}]

\* check_gpu_availability: the answer ("raise": an exception left the
\* function) and the exception types raised on the way.
CheckGpuAvailability(env) ==
  CASE env.torch = "ok" /\ env.cuda /\ env.name = "ok" -> [answer |-> "true", raised |-> {}]
    [] env.torch = "ok" /\ env.cuda /\ env.name # "ok" -> [answer |-> "raise", raised |-> {env.name}]
    [] env.torch = "ok" /\ ~env.cuda -> CheckCudaLibraries(env, {})
    [] env.torch = "ImportError" -> CheckCudaLibraries(env, {"ImportError"})
    [] OTHER -> [answer |-> "raise", raised |-> {env.torch}]

\* Mutant: FORCE_CPU is compared without lower-casing it.
ForceCpuCaseSensitive(value) == value \in { <<"1">>, <<"t", "r", "u", "e">>, <<"y", "e", "s">> }

\* transcribe.py:503
ForceCpu(value) == Lower(value) \in { <<"1">>, <<"t", "r", "u", "e">>, <<"y", "e", "s">> }

\* ---------------------------------------------------------------- executor
\* transcribe.py:226
Device(gpu) == IF gpu THEN "cuda" ELSE "cpu"

\* transcribe.py:228
ComputeType(gpu) == IF gpu THEN "float16" ELSE "int8"

\* Messages of the exceptions the model runtime raises.
RawMessages ==
  { <<"CUDA", "failed">>, <<"cudnn", "failed">>, <<"cublas", "failed">>,
    <<"no", "GPU">>, <<"out of memory">>,
    <<"tuple index out of range">>, <<"list index out of range">>,
    <<"tuple index out of range", "audio">>,
    <<"Audio", "failed">>, <<"cannot", "decode">>, <<"decode", "CUDA">>,
    <<"failed">> }

\* Exception types model.transcribe raises; the first four are the ones
\* line 283 catches.
CaughtTranscribeErrors == {"ValueError", "IndexError", "TypeError", "RuntimeError"}

ExcTypes == {"ValueError", "IndexError", "RuntimeError", "OSError"}

\* What the runtime does in one attempt: the stage that fails (or none),
\* the exception, and the number of segments yielded before that.
\* n segments of stream `pool` are yielded before the failure or the end.
AttemptOutcomes ==
  [kind : {"load_fail"}, exc : {"RuntimeError"}, msg : RawMessages, n : {0}, pool : {"a"}]
  \cup [kind : {"segment_fail"}, exc : {"RuntimeError"}, msg : {<<"failed">>, <<"CUDA", "failed">>},
        n : 0..MaxSegments, pool : {"a"}]
  \cup [kind : {"transcribe_fail"}, exc : ExcTypes \cap CaughtTranscribeErrors, msg : RawMessages,
        n : {0}, pool : {"a"}]
  \cup [kind : {"transcribe_fail"}, exc : ExcTypes \ CaughtTranscribeErrors,
        msg : {<<"failed">>, <<"out of memory">>}, n : {0}, pool : {"a"}]
  \cup [kind : {"ok"}, exc : {"none"}, msg : {<< >>}, n : 0..MaxSegments, pool : {"a", "b"}]

\* The segments the runtime yields: start time in ticks and text, a space
\* being the word " ".  No start time lies exactly half a millisecond
\* between two milliseconds.
SegmentStarts ==
  [a |-> <<0, 652500, 36001234, 60000000>>,
   b |-> <<599996, 60000000, 60012345, 72000000>>]

SegmentTexts ==
  [a |-> << <<" ", "hello">>, <<"big", " ", "world", " ">>, <<"x">>, <<"y">> >>,
   b |-> << <<" ", "one", " ">>, <<" ">>, <<"two">>, <<"three">> >>]

SegmentAt(pool, i) == [start |-> SegmentStarts[pool][i], text |-> SegmentTexts[pool][i]]

\* The first n segments of a stream.
SegmentsOf(pool, n) == [i \in 1..n |-> SegmentAt(pool, i)]

\* ------------------------------------------------------ timestamp and lines
DigitChars == <<"0", "1", "2", "3", "4", "5", "6", "7", "8", "9">>

\* Decimal digits of a natural number.
RECURSIVE DigitsOf(_)
DigitsOf(n) == IF n < 10 THEN <<DigitChars[n + 1]>>
               ELSE DigitsOf(n \div 10) \o <<DigitChars[(n % 10) + 1]>>

\* Zero padding to a minimum width (format specs 02d and 06.3f).
RECURSIVE ZeroPad(_, _)
ZeroPad(s, w) == IF Len(s) >= w THEN s ELSE ZeroPad(<<"0">> \o s, w)

\* Rounding to three decimals, in milliseconds.
RoundMs(ticks) == (ticks + (TicksPerSecond \div 2000)) \div (TicksPerSecond \div 1000)

\* f"{start_time%60:06.3f}", line 313.
FormatSeconds(t) ==
  LET ms == RoundMs(t % (60 * TicksPerSecond)) IN
    ZeroPad(DigitsOf(ms \div 1000) \o <<".">> \o ZeroPad(DigitsOf(ms % 1000), 3), 6)

\* f"[{int(start_time//60):02d}:{start_time%60:06.3f}]", line 313.
FormatTimestamp(t) ==
  <<"[">> \o ZeroPad(DigitsOf(t \div (60 * TicksPerSecond)), 2) \o <<":">>
          \o FormatSeconds(t) \o <<"]">>

\* str.strip(): leading and trailing spaces removed.
Strip(s) ==
  LET idx == {i \in DOMAIN s : s[i] # " "} IN
    IF idx = {} THEN << >>
    ELSE SubSeq(s, CHOOSE i \in idx : \A j \in idx : i <= j,
                   CHOOSE i \in idx : \A j \in idx : j <= i)

\* A transcript line that keeps the segment text as the model gave it.
TranscriptLineUntrimmed(seg) == FormatTimestamp(seg.start) \o <<" ">> \o seg.text

\* Line 314: one transcript line (without its newline).
TranscriptLine(seg) == FormatTimestamp(seg.start) \o <<" ">> \o Strip(seg.text)

\* Lines 308-316: the for loop over the segment iterator, from cursor cur;
\* reads lists the positions of the iterator the loop has taken.
RECURSIVE ConsumeSegments(_, _, _)
ConsumeSegments(segs, cur, acc) ==
  IF cur > Len(segs) THEN acc
  ELSE ConsumeSegments(segs, cur + 1,
         [lines |-> Append(acc.lines, TranscriptLine(segs[cur])),
          count |-> acc.count + 1,
          reads |-> Append(acc.reads, cur)])

AggregateSegments(segs) ==
  ConsumeSegments(segs, 1, [lines |-> << >>, count |-> 0, reads |-> << >>])

\* Lines 257-267: the message of the RuntimeError raised for a model load failure.
ModelLoadError(msg, gpu) ==
  IF ContainsAny(Lower(msg), CudaKeywords) /\ gpu
  THEN <<"GPU", "initialization failed:">> \o msg
  ELSE <<"Model loading failed:">> \o msg

\* Lines 283-298 and 352-353: the error text after a failure of model.transcribe.
TranscribeError(exc, msg) ==
  IF exc \notin CaughtTranscribeErrors THEN msg
  ELSE IF Contains(msg, "tuple index out of range") \/ Contains(msg, "list index out of range")
       THEN <<"Invalid", "audio", "file format", "Original error:">> \o msg
  ELSE IF Contains(Lower(msg), "audio") \/ Contains(Lower(msg), "decode")
       THEN <<"Audio", "decoding failed - file may be corrupted:">> \o msg
  ELSE <<"Transcription error:">> \o msg

\* Lines 348-350.
SegmentError(msg) == <<"Segment processing failed:">> \o msg

\* transcript_text.strip(), line 339: the lines, the last one without
\* trailing spaces.
StripTranscript(lines) ==
  IF lines = << >> THEN << >> ELSE [lines EXCEPT ![Len(lines)] = Strip(@)]

\* A transcript without the placeholder for a silent recording.
TranscriptNoPlaceholder(agg) == StripTranscript(agg.lines)

\* Lines 321-339: the transcript of an aggregation, as a sequence of lines.
Transcript(agg) ==
  IF agg.count = 0 THEN << <<"[No speech detected]">> >> ELSE StripTranscript(agg.lines)

\* A failure that still carries a transcript key.
FailureResultMixed(error, size, gpu) ==
  [success |-> FALSE, error |-> error, transcript |-> << >>, device |-> Device(gpu),
   compute_type |-> ComputeType(gpu), model_size |-> size]

\* Lines 356-362.
FailureResult(error, size, gpu) ==
  [success |-> FALSE, error |-> error, device |-> Device(gpu),
   compute_type |-> ComputeType(gpu), model_size |-> size]

\* Lines 323-346.
SuccessResult(agg, size, gpu) ==
  [success |-> TRUE, transcript |-> Transcript(agg), language |-> "en",
   language_probability |-> "p", device |-> Device(gpu),
   compute_type |-> ComputeType(gpu), model_size |-> size, segment_count |-> agg.count]

\* An executor that returns what it aggregated before the segment loop failed.
TranscribeAudioKeepsPartial(size, gpu, o) ==
  CASE o.kind = "load_fail" -> FailureResult(ModelLoadError(o.msg, gpu), size, gpu)
    [] o.kind = "transcribe_fail" -> FailureResult(TranscribeError(o.exc, o.msg), size, gpu)
    [] o.kind = "segment_fail" /\ o.n = 0 -> FailureResult(SegmentError(o.msg), size, gpu)
    [] OTHER -> SuccessResult(AggregateSegments(SegmentsOf(o.pool, o.n)), size, gpu)

\* transcribe_audio(audio_file, model_size, use_gpu) under outcome o.
TranscribeAudio(size, gpu, o) ==
  CASE o.kind = "load_fail" -> FailureResult(ModelLoadError(o.msg, gpu), size, gpu)
    [] o.kind = "transcribe_fail" -> FailureResult(TranscribeError(o.exc, o.msg), size, gpu)
    [] o.kind = "segment_fail" -> FailureResult(SegmentError(o.msg), size, gpu)
    [] OTHER -> SuccessResult(AggregateSegments(SegmentsOf(o.pool, o.n)), size, gpu)

\* Mutant: the retry does not ask which device the failed run used.
NeedsFallbackAnyDevice(res, gpu) ==
  /\ ~res.success
  /\ ContainsAny(Lower(res.error), CudaKeywords)

\* Lines 521-525: does main retry on the CPU after this result?
NeedsFallback(res, gpu) ==
  /\ ~res.success
  /\ gpu
  /\ ContainsAny(Lower(res.error), CudaKeywords)

\* ------------------------------------------------------------------- job
VARIABLES
  argc,               \* len(sys.argv)
  input,              \* the file at sys.argv[1]: name and filesystem metadata
  force_cpu_env,      \* value of the FORCE_CPU environment variable
  pc,                 \* position of main
  validation,         \* outcome of validate_input_file
  temp_wav_file,      \* main's variable: "None" or "tmp" (the whisper_extract path)
  temp_disk,          \* the whisper_extract_<pid>.wav path on disk
  extraction,         \* outcome of the extraction stage
  file_to_transcribe, \* "unset", "input" or "tmp"
  use_gpu,
  model_size,
  probe,              \* outcome of check_gpu_availability
  attempts,           \* the calls of transcribe_audio made so far
  result,             \* main's variable result
  transcript_file,    \* transcriptions/<base>.txt on disk
  result_file,        \* the records written to <input>.result.json, in order
  stdout,             \* the JSON objects printed
  handler,            \* which handler of main's try ran
  exit_code,          \* -1 while the process runs
  interrupted         \* a KeyboardInterrupt was raised in some stage

vars == << interrupted, argc, input, force_cpu_env, pc, validation, temp_wav_file, temp_disk,
           extraction, file_to_transcribe, use_gpu, model_size, probe, attempts,
           result, transcript_file, result_file, stdout, handler, exit_code >>

\* File names given on the command line (base names).
Names ==
  { <<"c", ".", "m", "p", "3">>, <<"v", ".", "M", "k", "v">>,
    <<"n", ".", "t", "x", "t">>, <<"n">>, <<".", "m", "p", "3">> }

\* The name of the file the job is given inside the transcriptions
\* directory itself; every other input lies in a sibling directory of it.
NamesInTranscriptions == { <<"n", ".", "t", "x", "t">> }

\* The filesystem entries a path can name.
Inputs ==
  [name : Names, dir : {"media"}, exists : {FALSE}, isfile : {FALSE}, size : {0},
   sizeErr : {FALSE}]
  \cup [name : Names, dir : {"media"}, exists : {TRUE}, isfile : {FALSE}, size : {0},
        sizeErr : {FALSE}]
  \cup [name : Names, dir : {"media"}, exists : {TRUE}, isfile : {TRUE}, size : {0},
        sizeErr : {TRUE}]
  \cup [name : Names, dir : {"media"}, exists : {TRUE}, isfile : {TRUE}, size : 0..MaxSize,
        sizeErr : {FALSE}]
  \cup [name : NamesInTranscriptions, dir : {"transcriptions"}, exists : {TRUE},
        isfile : {TRUE}, size : MinFileSize..MaxSize, sizeErr : {FALSE}]

\* Values of FORCE_CPU; the empty one is the unset variable.
ForceCpuValues ==
  { << >>, <<"1">>, <<"T", "R", "U", "E">>, <<"Y", "e", "s">>, <<"n", "o">> }

NoValidation == [ok |-> FALSE, reason |-> "pending", warn |-> FALSE]
NoProbe == [answer |-> "not_run", raised |-> {}]
\* No transcript file on disk.
NoFile == [path |-> "None"]
NoResult == [success |-> FALSE, error |-> <<"unset">>]

Init ==
  /\ argc \in 1..3
  /\ input \in Inputs
  /\ argc # 2 => input = [name |-> <<"n">>, dir |-> "media", exists |-> FALSE,
                          isfile |-> FALSE, size |-> 0, sizeErr |-> FALSE]
  /\ force_cpu_env \in ForceCpuValues
  /\ argc # 2 => force_cpu_env = << >>
  /\ pc = "args"
  /\ validation = NoValidation
  /\ temp_wav_file = "None"
  /\ temp_disk = "absent"
  /\ extraction = "pending"
  /\ file_to_transcribe = "unset"
  /\ use_gpu = FALSE
  /\ model_size = "unset"
  /\ probe = NoProbe
  /\ attempts = << >>
  /\ result = NoResult
  /\ transcript_file = NoFile
  /\ result_file = << >>
  /\ stdout = << >>
  /\ handler = "none"
  /\ exit_code = -1
  /\ interrupted = FALSE

\* Lines 451-458: wrong number of arguments.
CheckArgs ==
  /\ pc = "args"
  /\ IF argc # 2
     THEN /\ stdout' = Append(stdout, [success |-> FALSE, error |-> <<"Usage">>])
          /\ handler' = "sysexit"
          /\ exit_code' = 1
          /\ pc' = "finally"
     ELSE /\ pc' = "validate"
          /\ UNCHANGED << stdout, handler, exit_code >>
  /\ UNCHANGED << interrupted, argc, input, force_cpu_env, validation, temp_wav_file, temp_disk,
                  extraction, file_to_transcribe, use_gpu, model_size, probe,
                  attempts, result, transcript_file, result_file >>

\* Mutant: a validation failure is recorded but the job goes on.
ValidateNoGate ==
  /\ pc = "validate"
  /\ validation' = ValidateInputFile(input)
  /\ pc' = "extract"
  /\ UNCHANGED << interrupted, argc, input, force_cpu_env, temp_wav_file, temp_disk, extraction,
                  file_to_transcribe, use_gpu, model_size, probe, attempts, result,
                  transcript_file, result_file, stdout, handler, exit_code >>

\* A validation failure that leaves through sys.exit(0).
ValidateExitZero ==
  /\ pc = "validate"
  /\ validation' = ValidateInputFile(input)
  /\ IF ~validation'.ok
     THEN /\ stdout' = Append(stdout,
                 [success |-> FALSE,
                  error |-> <<"File validation failed:", validation'.reason>>])
          /\ handler' = "sysexit"
          /\ exit_code' = 0
          /\ pc' = "finally"
     ELSE /\ pc' = "extract"
          /\ UNCHANGED << stdout, handler, exit_code >>
  /\ UNCHANGED << interrupted, argc, input, force_cpu_env, temp_wav_file, temp_disk, extraction,
                  file_to_transcribe, use_gpu, model_size, probe, attempts, result,
                  transcript_file, result_file >>

\* Lines 465-474.
Validate ==
  /\ pc = "validate"
  /\ validation' = ValidateInputFile(input)
  /\ IF ~validation'.ok
     THEN /\ stdout' = Append(stdout,
                 [success |-> FALSE,
                  error |-> <<"File validation failed:", validation'.reason>>])
          /\ handler' = "sysexit"
          /\ exit_code' = 1
          /\ pc' = "finally"
     ELSE /\ pc' = "extract"
          /\ UNCHANGED << stdout, handler, exit_code >>
  /\ UNCHANGED << interrupted, argc, input, force_cpu_env, temp_wav_file, temp_disk, extraction,
                  file_to_transcribe, use_gpu, model_size, probe, attempts, result,
                  transcript_file, result_file >>

\* Mutant: the temporary path is handed to the executor whatever extraction said.
ExtractStageAlwaysTemp(env) ==
  LET r == ExtractAudioToWav(env) IN
  /\ temp_disk' = env.file
  /\ extraction' = IF r.raised THEN "error" ELSE IF r.ok THEN "ok" ELSE r.diag
  /\ file_to_transcribe' = "tmp"
  /\ temp_wav_file' = IF r.ok THEN "tmp" ELSE "None"
  /\ pc' = "select"

\* Lines 476-500: the extraction stage of main under environment env.
ExtractStage(env) ==
  LET r == ExtractAudioToWav(env) IN
  /\ temp_disk' = env.file
  /\ extraction' = IF r.raised THEN "error" ELSE IF r.ok THEN "ok" ELSE r.diag
  /\ file_to_transcribe' = IF r.ok THEN "tmp" ELSE "input"
  /\ temp_wav_file' = IF r.ok THEN "tmp" ELSE "None"
  /\ pc' = "select"

Extract ==
  /\ pc = "extract"
  /\ \E env \in ExtractEnvs : ExtractStage(env)
  /\ UNCHANGED << interrupted, argc, input, force_cpu_env, validation, use_gpu, model_size, probe,
                  attempts, result, transcript_file, result_file, stdout, handler,
                  exit_code >>

\* Lines 569-572: the handler of an exception no stage caught.
UnexpectedError(exc) ==
  /\ stdout' = Append(stdout, [success |-> FALSE, error |-> <<"Unexpected error:", exc>>])
  /\ handler' = "exception"
  /\ exit_code' = 1
  /\ pc' = "finally"

\* Lines 502-513 under probe environment env.
SelectStage(env) ==
  IF ForceCpu(force_cpu_env)
  THEN /\ use_gpu' = FALSE
       /\ model_size' = "base"
       /\ pc' = "attempt1"
       /\ UNCHANGED << probe, stdout, handler, exit_code >>
  ELSE LET r == CheckGpuAvailability(env) IN
       /\ probe' = r
       /\ IF r.answer = "raise"
          THEN /\ UnexpectedError("probe")
               /\ UNCHANGED << use_gpu, model_size >>
          ELSE /\ use_gpu' = (r.answer = "true")
               /\ model_size' = IF r.answer = "true" THEN "medium" ELSE "base"
               /\ pc' = "attempt1"
               /\ UNCHANGED << stdout, handler, exit_code >>

SelectDevice ==
  /\ pc = "select"
  /\ \E env \in ProbeEnvs : SelectStage(env)
  /\ UNCHANGED << interrupted, argc, input, force_cpu_env, validation, temp_wav_file, temp_disk,
                  extraction, file_to_transcribe, attempts, result, transcript_file,
                  result_file >>

\* The positions of the segment iterator an attempt has taken.
ReadsOf(o) ==
  CASE o.kind = "ok" -> AggregateSegments(SegmentsOf(o.pool, o.n)).reads
    [] o.kind = "segment_fail" -> [i \in 1..o.n |-> i]
    [] OTHER -> << >>

\* One call of transcribe_audio: its arguments, what the runtime did (stage
\* that failed, message, stream and number of segments yielded) and its result.
AttemptRecord(file, size, gpu, o, res) ==
  [file |-> file, device |-> Device(gpu), compute_type |-> ComputeType(gpu),
   model_size |-> size, kind |-> o.kind, msg |-> o.msg, pool |-> o.pool, n |-> o.n,
   reads |-> ReadsOf(o), result |-> res]

\* The runtime was cut short by Ctrl-C.
InterruptedOutcome ==
  [kind |-> "interrupted", exc |-> "KeyboardInterrupt", msg |-> << >>, n |-> 0, pool |-> "a"]

\* Lines 518-525: the primary attempt and the decision to retry.
PrimaryStage(o) ==
  LET res == TranscribeAudio(model_size, use_gpu, o) IN
  /\ result' = res
  /\ attempts' = Append(attempts, AttemptRecord(file_to_transcribe, model_size, use_gpu, o, res))
  /\ pc' = IF NeedsFallback(res, use_gpu) THEN "attempt2" ELSE "save"

\* A first attempt that removes the extracted file as soon as it returns.
PrimaryAttemptCleansUp ==
  /\ pc = "attempt1"
  /\ \E o \in AttemptOutcomes : PrimaryStage(o)
  /\ temp_disk' = "absent"
  /\ UNCHANGED << interrupted, argc, input, force_cpu_env, validation, temp_wav_file,
                  extraction, file_to_transcribe, use_gpu, model_size, probe,
                  transcript_file, result_file, stdout, handler, exit_code >>

PrimaryAttempt ==
  /\ pc = "attempt1"
  /\ \E o \in AttemptOutcomes : PrimaryStage(o)
  /\ UNCHANGED << interrupted, argc, input, force_cpu_env, validation, temp_wav_file, temp_disk,
                  extraction, file_to_transcribe, use_gpu, model_size, probe,
                  transcript_file, result_file, stdout, handler, exit_code >>

\* A retry that keeps the model size of the first attempt.
FallbackStageKeepsModel(o) ==
  LET res == TranscribeAudio(model_size, FALSE, o) IN
  /\ result' = res
  /\ attempts' = Append(attempts, AttemptRecord(file_to_transcribe, model_size, FALSE, o, res))
  /\ pc' = "save"

\* A retry whose failure leaves the result of the first attempt in place.
FallbackStageKeepsFirstFailure(o) ==
  LET res == TranscribeAudio("base", FALSE, o) IN
  /\ result' = IF res.success THEN res ELSE result
  /\ attempts' = Append(attempts, AttemptRecord(file_to_transcribe, "base", FALSE, o, res))
  /\ pc' = "save"

\* Line 529: the retry on the CPU.
FallbackStage(o) ==
  LET res == TranscribeAudio("base", FALSE, o) IN
  /\ result' = res
  /\ attempts' = Append(attempts, AttemptRecord(file_to_transcribe, "base", FALSE, o, res))
  /\ pc' = "save"

FallbackAttempt ==
  /\ pc = "attempt2"
  /\ \E o \in AttemptOutcomes : FallbackStage(o)
  /\ UNCHANGED << interrupted, argc, input, force_cpu_env, validation, temp_wav_file, temp_disk,
                  extraction, file_to_transcribe, use_gpu, model_size, probe,
                  transcript_file, result_file, stdout, handler, exit_code >>

\* --------------------------------------------------------- save and output
\* os.path.splitext(os.path.basename(audio_file))[0], line 396.
BaseName(name) == SubSeq(name, 1, Len(name) - Len(SplitExt(name)))

\* Lines 399-403: the path of the transcript file.
OutputPath(name) == [dir |-> "transcriptions", base |-> BaseName(name), ext |-> ".txt"]

\* Is a path of the transcriptions directory the path of the input file?
\* dirname(audio_file)/../transcriptions is the directory of the input when
\* the input lies in a directory named transcriptions.
IsInputFile(path) ==
  /\ path.dir = input.dir
  /\ path.base = BaseName(input.name)
  /\ path.ext = ".txt"
  /\ SplitExt(input.name) = <<".", "t", "x", "t">>

\* What the path of the input file holds on disk: open(output_file, 'w') at
\* line 419 truncates the file it names, line 421 writes the transcript.
InputOnDisk ==
  IF transcript_file # NoFile /\ IsInputFile(transcript_file.path)
  THEN IF transcript_file.complete THEN "transcript" ELSE "truncated"
  ELSE IF input.exists THEN "original" ELSE "absent"

\* The ways the file operations of save_transcription can go: makedirs
\* raises (line 400), open raises (line 419), write raises after open
\* truncated the file (lines 420-421), or all succeed.
SaveOutcomes == {"ok", "mkdir_error", "open_error", "write_error"}

\* save_transcription: the path returned; saved is FALSE for the None
\* returned by the handler of lines 435-437.
SaveTranscription(name, io) == [saved |-> (io = "ok"), path |-> OutputPath(name)]

\* The file save_transcription writes, lines 406-421.
TranscriptFile(res, name) ==
  [path |-> OutputPath(name), source |-> name, device |-> res.device,
   compute_type |-> res.compute_type, model_size |-> res.model_size,
   language |-> res.language, body |-> res.transcript, complete |-> TRUE]

\* What a write that failed part-way leaves on disk: the file is there,
\* its transcript is not.
PartialFile(res, name) ==
  [TranscriptFile(res, name) EXCEPT !.body = << >>, !.complete = FALSE]

\* result["output_file"] = output_file, line 544.
WithOutputFile(res, path) ==
  [k \in DOMAIN res \cup {"output_file"} |-> IF k = "output_file" THEN path ELSE res[k]]

\* The path main holds in temp_wav_file, line 483.
TempName == <<"w", ".", "w", "a", "v">>

\* The file name behind a value of file_to_transcribe.
PathOf(which) == IF which = "tmp" THEN TempName ELSE input.name

\* A save stage that names the transcript after the file handed to the
\* executor.
SaveStageFromTemp(io) ==
  LET out == SaveTranscription(PathOf(file_to_transcribe), io) IN
  /\ IF result.success
     THEN /\ transcript_file' =
               IF out.saved THEN TranscriptFile(result, PathOf(file_to_transcribe))
               ELSE IF io = "write_error"
                    THEN PartialFile(result, PathOf(file_to_transcribe))
                    ELSE transcript_file
          /\ result' = IF out.saved THEN WithOutputFile(result, out.path) ELSE result
     ELSE /\ io = "ok"
          /\ UNCHANGED << transcript_file, result >>
  /\ stdout' = Append(stdout, result')
  /\ pc' = "finally"

\* Lines 531-562: save the transcript of a success, then print the result.
SaveStage(io) ==
  LET out == SaveTranscription(input.name, io) IN
  /\ IF result.success
     THEN /\ transcript_file' =
               IF out.saved THEN TranscriptFile(result, input.name)
               ELSE IF io = "write_error" THEN PartialFile(result, input.name)
                    ELSE transcript_file
          /\ result' = IF out.saved THEN WithOutputFile(result, out.path) ELSE result
     ELSE /\ io = "ok"
          /\ UNCHANGED << transcript_file, result >>
  /\ stdout' = Append(stdout, result')
  /\ pc' = "finally"

SaveAndOutput ==
  /\ pc = "save"
  /\ \E io \in SaveOutcomes : SaveStage(io)
  /\ UNCHANGED << interrupted, argc, input, force_cpu_env, validation, temp_wav_file, temp_disk,
                  extraction, file_to_transcribe, use_gpu, model_size, probe, attempts,
                  result_file, handler, exit_code >>

\* Lines 574-581, then process exit.  os.remove of an existing file the
\* process created is taken to succeed.
Cleanup ==
  /\ pc = "finally"
  /\ temp_disk' = IF temp_wav_file # "None" /\ temp_disk # "absent" THEN "absent" ELSE temp_disk
  /\ exit_code' = IF exit_code = -1 THEN 0 ELSE exit_code
  /\ pc' = "done"
  /\ UNCHANGED << interrupted, argc, input, force_cpu_env, validation, temp_wav_file, extraction,
                  file_to_transcribe, use_gpu, model_size, probe, attempts, result,
                  transcript_file, result_file, stdout, handler >>

\* A KeyboardInterrupt handler that prints nothing.
InterruptedSilent ==
  /\ stdout' = stdout
  /\ handler' = "interrupt"
  /\ exit_code' = 130
  /\ pc' = "finally"

\* ------------------------------------------------------------ interruption
\* Lines 564-567: the KeyboardInterrupt handler of main.
Interrupted ==
  /\ stdout' = Append(stdout, [success |-> FALSE, error |-> <<"Interrupted by user">>])
  /\ handler' = "interrupt"
  /\ exit_code' = 130
  /\ pc' = "finally"

\* transcribe_audio with a bare `except:` at line 352.
ExceptClauseBare(stage) ==
  CASE stage = "validate" -> "OSError"
    [] stage = "extract" -> "Exception"
    [] stage = "select" -> "ImportError"
    [] stage = "attempt" -> "BaseException"
    [] OTHER -> "Exception"

\* The widest except clause around each stage inside the stage's own code:
\* line 87 (validate), 174 and 496 (extract), 195 and 204 (probe), 352
\* (transcribe_audio), 435 (save_transcription).
ExceptClause(stage) ==
  CASE stage = "validate" -> "OSError"
    [] stage = "extract" -> "Exception"
    [] stage = "select" -> "ImportError"
    [] stage = "attempt" -> "Exception"
    [] OTHER -> "Exception"

\* Does `except <clause>` catch an exception of class exc?  KeyboardInterrupt
\* and SystemExit derive from BaseException, not from Exception.
Caught(clause, exc) ==
  CASE clause = "BaseException" -> TRUE
    [] clause = "Exception" -> exc \notin {"KeyboardInterrupt", "SystemExit"}
    [] OTHER -> exc = clause

\* Where main goes on when a stage has absorbed an exception.
AfterStage(stage) ==
  CASE stage = "validate" -> "extract"
    [] stage = "extract" -> "select"
    [] stage = "select" -> "attempt1"
    [] stage = "attempt" -> "save"
    [] OTHER -> "finally"

\* A KeyboardInterrupt raised while `stage` runs: absorbed by the stage's
\* handler if that catches it, else taken by the handler of main.
Deliver(stage) ==
  /\ interrupted' = TRUE
  /\ IF Caught(ExceptClause(stage), "KeyboardInterrupt")
     THEN /\ pc' = AfterStage(stage)
          /\ UNCHANGED << stdout, handler, exit_code >>
     ELSE Interrupted

\* Ctrl-C while validate_input_file runs.
InterruptValidate ==
  /\ pc = "validate"
  /\ Deliver("validate")
  /\ UNCHANGED << argc, input, force_cpu_env, validation, temp_wav_file, temp_disk,
                  extraction, file_to_transcribe, use_gpu, model_size, probe, attempts,
                  result, transcript_file, result_file >>

\* Ctrl-C while extract_audio_to_wav runs: temp_wav_file is set (line 483)
\* and the tool, killed by subprocess.run, may have created the output file.
InterruptExtract ==
  /\ pc = "extract"
  /\ temp_wav_file' = "tmp"
  /\ temp_disk' \in {"absent", "empty", "nonempty"}
  /\ extraction' = "interrupted"
  /\ Deliver("extract")
  /\ UNCHANGED << argc, input, force_cpu_env, validation, file_to_transcribe, use_gpu,
                  model_size, probe, attempts, result, transcript_file, result_file >>

\* Ctrl-C while check_gpu_availability runs.
InterruptProbe ==
  /\ pc = "select"
  /\ ~ForceCpu(force_cpu_env)
  /\ probe' = [answer |-> "interrupted", raised |-> {}]
  /\ Deliver("select")
  /\ UNCHANGED << argc, input, force_cpu_env, validation, temp_wav_file, temp_disk,
                  extraction, file_to_transcribe, use_gpu, model_size, attempts, result,
                  transcript_file, result_file >>

\* Ctrl-C while transcribe_audio runs (model load, transcription or segment
\* loop): `except Exception` at line 352 does not catch it.
InterruptAttempt ==
  /\ pc \in {"attempt1", "attempt2"}
  /\ attempts' = Append(attempts,
        IF pc = "attempt1"
        THEN AttemptRecord(file_to_transcribe, model_size, use_gpu, InterruptedOutcome, NoResult)
        ELSE AttemptRecord(file_to_transcribe, "base", FALSE, InterruptedOutcome, NoResult))
  /\ Deliver("attempt")
  /\ UNCHANGED << argc, input, force_cpu_env, validation, temp_wav_file, temp_disk,
                  extraction, file_to_transcribe, use_gpu, model_size, probe, result,
                  transcript_file, result_file >>

\* Ctrl-C while save_transcription runs; the file may already be written.
InterruptSave ==
  /\ pc = "save"
  /\ result.success
  /\ transcript_file' \in {transcript_file, PartialFile(result, input.name),
                         TranscriptFile(result, input.name)}
  /\ Deliver("save")
  /\ UNCHANGED << argc, input, force_cpu_env, validation, temp_wav_file, temp_disk,
                  extraction, file_to_transcribe, use_gpu, model_size, probe, attempts,
                  result, result_file >>

Next ==
  \/ CheckArgs
  \/ Validate
  \/ Extract
  \/ SelectDevice
  \/ PrimaryAttempt
  \/ FallbackAttempt
  \/ SaveAndOutput
  \/ Cleanup
  \/ InterruptValidate
  \/ InterruptExtract
  \/ InterruptProbe
  \/ InterruptAttempt
  \/ InterruptSave

Spec == Init /\ [][Next]_vars

TypeOK ==
  /\ pc \in {"args", "validate", "extract", "select", "attempt1", "attempt2", "save",
             "finally", "done"}
  /\ exit_code \in {-1, 0, 1, 130}
  /\ Len(attempts) <= 2

\* ----------------------------------------------------------------- claims
\* The job ended through the normal path of main (no handler, no sys.exit).
CompletedNormally == pc \in {"finally", "done"} /\ handler = "none"

\* An error text holds one of the accelerator keywords, compared in lower case.
HasCudaKeyword(text) == \E i \in DOMAIN text : LowerTok(text[i]) \in CudaKeywords

\* A first run that calls for the retry: on cuda, failed, keyword in its text.
FirstRunCallsForRetry ==
  /\ Len(attempts) >= 1
  /\ attempts[1].device = "cuda"
  /\ ~attempts[1].result.success
  /\ HasCudaKeyword(attempts[1].result.error)

\* C1: transcribe_audio runs at most twice in a job; a second run happens
\* exactly when the first run was on cuda, failed, and its error text holds an
\* accelerator keyword; the second run is on (cpu, base); a failure on the
\* cpu, or a cuda failure without keyword, is never retried.
C1_AtMostOneFallbackRetry ==
  /\ Len(attempts) <= 2
  /\ Len(attempts) = 2 =>
       /\ FirstRunCallsForRetry
       /\ attempts[2].device = "cpu"
       /\ attempts[2].model_size = "base"
  /\ (FirstRunCallsForRetry /\ pc # "attempt2") => Len(attempts) = 2
  /\ (pc = "attempt2") => (Len(attempts) = 1 /\ FirstRunCallsForRetry)

\* C1 witness: a keyword failure on cuda was retried on the cpu, the retry
\* failed with a keyword too, and the job ended without a third run.
C1_Witness ==
  /\ pc = "done"
  /\ Len(attempts) = 2
  /\ attempts[1].device = "cuda"
  /\ ~attempts[2].result.success
  /\ HasCudaKeyword(attempts[2].result.error)
  /\ handler = "none"

\* C2: when the process has terminated the temporary extraction file does
\* not exist on disk, on every exit path.
C2_TempFileRemoved == pc = "done" => temp_disk = "absent"

\* C3: after the terminal attempt resolves the record at
\* <input>.result.json is written twice, first without output_file
\* (pre-save), then again after the transcript save (post-save, with
\* output_file when the save succeeded).
C3_TwoPhaseRecord ==
  (CompletedNormally /\ Len(attempts) >= 1) =>
     /\ Len(result_file) = 2
     /\ "success" \in DOMAIN result_file[1]
     /\ "output_file" \notin DOMAIN result_file[1]
     /\ ("output_file" \in DOMAIN result) => ("output_file" \in DOMAIN result_file[2])

\* What a reader of <input>.result.json finds at this moment.
ReaderView ==
  CASE result_file = << >> -> "no file"
    [] Len(result_file) = 1 -> "stage-1"
    [] OTHER -> "stage-2"

ValidationReasons ==
  {"File not found", "Path is not a file", "File is empty (0 bytes)", "File too small",
   "Cannot read file size"}

\* C5: after validate_input_file returns not-valid nothing else runs: no
\* extraction, no probe, no attempt, no save, no temporary file, and the
\* only result printed is a failure naming the validation reason.
C5_ValidationGate ==
  (validation # NoValidation /\ ~validation.ok) =>
     /\ pc \in {"finally", "done"}
     /\ extraction = "pending"
     /\ temp_wav_file = "None"
     /\ temp_disk = "absent"
     /\ file_to_transcribe = "unset"
     /\ probe = NoProbe
     /\ attempts = << >>
     /\ transcript_file = NoFile
     /\ Len(stdout) = 1
     /\ ~stdout[1].success
     /\ stdout[1].error[1] = "File validation failed:"
     /\ stdout[1].error[2] \in ValidationReasons
     /\ stdout[1].error[2] = validation.reason

\* C5 witness: a job that ended on a too-small file.
C5_Witness ==
  /\ pc = "done"
  /\ validation.reason = "File too small"
  /\ Len(stdout) = 1

\* C6: validate_input_file returns the outcome of the first rule that
\* applies: missing -> NotFound; not a regular file -> NotAFile; size 0 ->
\* Empty; size 1..99 -> TooSmall; size >= 100 -> valid.
C6_ValidationRules ==
  (validation # NoValidation) =>
     /\ ~input.exists => (~validation.ok /\ validation.reason = "File not found")
     /\ (input.exists /\ ~input.isfile) =>
          (~validation.ok /\ validation.reason = "Path is not a file")
     /\ (input.exists /\ input.isfile /\ ~input.sizeErr) =>
          /\ input.size = 0 =>
               (~validation.ok /\ validation.reason = "File is empty (0 bytes)")
          /\ input.size \in 1..99 =>
               (~validation.ok /\ validation.reason = "File too small")
          /\ input.size >= 100 => (validation.ok /\ validation.reason = "None")

\* C6 witness: a regular file of exactly 100 bytes was validated and accepted.
C6_Witness ==
  /\ validation.ok
  /\ input.size = 100
  /\ pc = "extract"

\* The name ends in the extension e, compared in lower case, with something
\* other than dots before it.
EndsWithExtension(name, e) ==
  /\ Len(name) > Len(e)
  /\ \A i \in 1..Len(e) : LowerTok(name[Len(name) - Len(e) + i]) = e[i]
  /\ \E k \in 1..(Len(name) - Len(e)) : name[k] # "."

\* The input passes the existence, file and size checks.
PassesBasicChecks ==
  input.exists /\ input.isfile /\ ~input.sizeErr /\ input.size >= 100

\* C7: for an input that passes the existence, file and size checks an
\* extension outside the allow-set never fails validation: validation
\* succeeds with the extension warning and the job goes on to extraction; an
\* extension inside the allow-set (case-insensitively) gives no warning.
C7_ExtensionAdvisory ==
  (validation # NoValidation /\ PassesBasicChecks) =>
     /\ validation.ok
     /\ validation.warn <=> ~(\E e \in valid_extensions : EndsWithExtension(input.name, e))
     /\ pc = "extract" \/ extraction # "pending"

\* C7 witness: a .txt input was accepted with the warning and the job ran
\* to a printed result.
C7_Witness ==
  /\ validation.ok
  /\ validation.warn
  /\ input.name = <<"n", ".", "t", "x", "t">>
  /\ CompletedNormally
  /\ Len(attempts) >= 1

\* The extraction stage ended (it was not interrupted) without success.
ExtractionFailed == extraction \notin {"pending", "interrupted", "ok"}

\* C8: pre-extraction is best-effort: after every extraction failure the job
\* goes on to device selection and the executor, the failure alone never
\* makes the final result a failure, and the executor gets the temporary
\* file iff extraction reported success, else the original input.
C8_ExtractionBestEffort ==
  /\ (extraction \notin {"pending", "interrupted"}) =>
       /\ pc \notin {"args", "validate", "extract"}
       /\ (file_to_transcribe = "tmp") <=> (extraction = "ok")
       /\ (file_to_transcribe = "input") <=> (extraction # "ok")
       /\ \A i \in DOMAIN attempts : attempts[i].file = file_to_transcribe
  /\ ExtractionFailed =>
       /\ pc = "select" \/ probe # NoProbe \/ ForceCpu(force_cpu_env)
       /\ (pc \in {"finally", "done"} /\ attempts = << >>) =>
            (handler = "interrupt" \/ (handler = "exception" /\ probe.answer = "raise"))
       /\ (CompletedNormally) =>
            /\ Len(attempts) >= 1
            /\ stdout[Len(stdout)].success = attempts[Len(attempts)].result.success

\* C8 witness: the extraction tool timed out, leaving a file, and the job
\* still ended with a successful transcription of the original input.
C8_Witness ==
  /\ pc = "done"
  /\ extraction = "Audio extraction timeout"
  /\ attempts # << >>
  /\ attempts[Len(attempts)].file = "input"
  /\ stdout[Len(stdout)].success

\* C9: any exception raised while probing acceleration capability is turned
\* into the answer "unavailable": the probe returns false, the job goes on
\* with the fallback profile, and the top-level handler is not reached.
C9_ProbeNeverRaises ==
  (probe.raised # {}) =>
     /\ probe.answer = "false"
     /\ handler # "exception"
     /\ pc \notin {"select"} => (~use_gpu /\ model_size = "base")

\* C10: with FORCE_CPU in 1/true/yes the probe is never run and no attempt
\* is made on cuda: the only attempt is (cpu, base) and no retry follows it.
C10_ForceCpuBypassesProbe ==
  (Lower(force_cpu_env) \in { <<"1">>, <<"t", "r", "u", "e">>, <<"y", "e", "s">> }) =>
     /\ probe = NoProbe
     /\ Len(attempts) <= 1
     /\ pc # "attempt2"
     /\ \A i \in DOMAIN attempts :
          attempts[i].device = "cpu" /\ attempts[i].model_size = "base"

\* C10 witness: FORCE_CPU=TRUE, the cpu attempt failed with an accelerator
\* keyword in its text, and the job ended after that single attempt.
C10_Witness ==
  /\ pc = "done"
  /\ force_cpu_env = <<"T", "R", "U", "E">>
  /\ Len(attempts) = 1
  /\ ~attempts[1].result.success
  /\ HasCudaKeyword(attempts[1].result.error)
  /\ handler = "none"

\* The job printed the result of an executor attempt (line 562).
PrintedAttemptResult == handler = "none" /\ Len(attempts) >= 1 /\ Len(stdout) = 1

\* C11 as stated: the exit code is 0 whenever the job ends with a JSON
\* result of a success or of a handled failure, a validation failure
\* included, and non-zero on a usage error, an interruption and an
\* unexpected exception.
C11_ExitZeroOnHandledFailure ==
  pc = "done" =>
    IF argc # 2 \/ handler \in {"interrupt", "exception"}
    THEN exit_code # 0
    ELSE exit_code = 0

\* C11 amended: the exit code is 0 exactly when the job printed the result
\* of its last executor attempt (success, executor failure, failed fallback,
\* failed transcript save); it is 1 on a usage error, on a validation
\* failure and on an unexpected exception, and 130 on an interruption.
C11_ExitCodes ==
  pc = "done" =>
    /\ handler = "interrupt" => exit_code = 130
    /\ handler = "exception" => exit_code = 1
    /\ handler = "sysexit" => exit_code = 1 /\ (argc # 2 \/ ~validation.ok)
    /\ handler = "none" => exit_code = 0 /\ PrintedAttemptResult
    /\ (argc # 2 \/ (validation # NoValidation /\ ~validation.ok)) => exit_code = 1
    /\ exit_code \in {0, 1, 130}

\* A fallback retry failed and the job still exited with 0.
C11_Witness ==
  /\ pc = "done"
  /\ Len(attempts) = 2
  /\ Len(stdout) = 1
  /\ ~stdout[1].success
  /\ exit_code = 0

\* C12: a run prints nothing before it reaches its end and exactly one JSON
\* result when it has reached it, whichever path it took.
C12_ExactlyOneJson ==
  /\ Len(stdout) <= 1
  /\ pc \in {"finally", "done"} <=> Len(stdout) = 1
  /\ Len(stdout) = 1 => "success" \in DOMAIN stdout[1]

\* An interruption during the fallback retry: one result, no more.
C12_Witness ==
  /\ pc = "done"
  /\ handler = "interrupt"
  /\ Len(attempts) = 2
  /\ Len(stdout) = 1

\* C13: an interruption during a stage is taken by the handler of main, not
\* by the stage: the run goes to the cleanup block, which removes the
\* temporary file main tracks, and exits with 130; no run that was not
\* interrupted exits with 130.
C13_InterruptReaches130 ==
  /\ interrupted =>
       /\ handler = "interrupt"
       /\ pc \in {"finally", "done"}
       /\ exit_code = 130
       /\ stdout = << [success |-> FALSE, error |-> <<"Interrupted by user">>] >>
       /\ (pc = "done" /\ temp_wav_file # "None") => temp_disk = "absent"
  /\ exit_code = 130 => interrupted

\* Interrupted while the executor read the extracted file; the file is gone.
C13_Witness ==
  /\ interrupted
  /\ pc = "done"
  /\ file_to_transcribe = "tmp"
  /\ Len(attempts) >= 1
  /\ attempts[Len(attempts)].kind = "interrupted"
  /\ temp_disk = "absent"
  /\ exit_code = 130

\* The attempts whose transcription call yielded no segment.
ZeroSegmentAttempts == {i \in DOMAIN attempts : attempts[i].kind = "ok" /\ attempts[i].n = 0}

\* C14: an attempt that yields zero segments is a success with transcript
\* "[No speech detected]" and segment_count 0, without an error; it is
\* followed by no retry, and a run that ends normally after it saves and
\* prints that success.
C14_NoSpeechIsSuccess ==
  \A i \in ZeroSegmentAttempts :
    LET res == attempts[i].result IN
    /\ res.success
    /\ res.transcript = << <<"[No speech detected]">> >>
    /\ res.segment_count = 0
    /\ "error" \notin DOMAIN res
    /\ i = Len(attempts)
    /\ pc # "attempt2"
    /\ CompletedNormally =>
         /\ stdout[1].success
         /\ stdout[1].transcript = res.transcript
         /\ stdout[1].segment_count = 0
         /\ "output_file" \in DOMAIN stdout[1] =>
              transcript_file.body = << <<"[No speech detected]">> >>

\* A silent recording on the accelerator: saved and printed, no retry.
C14_Witness ==
  /\ pc = "done"
  /\ CompletedNormally
  /\ Len(attempts) = 1
  /\ 1 \in ZeroSegmentAttempts
  /\ attempts[1].device = "cuda"
  /\ "output_file" \in DOMAIN stdout[1]
  /\ transcript_file.body = << <<"[No speech detected]">> >>

\* The attempts that ended in a success.
SuccessfulAttempts == {i \in DOMAIN attempts : attempts[i].kind = "ok"}

\* The value of a decimal digit character.
DigitVal(ch) == CHOOSE d \in 0..9 : DigitChars[d + 1] = ch

\* The position of the first ":" of a transcript line.
ColonAt(line) == CHOOSE c \in DOMAIN line : line[c] = ":" /\ \A k \in 1..(c - 1) : line[k] # ":"

\* The j-th line of the transcript of attempt i has a stamp of the form
\* "[MM:SS.mmm]" for the start time t of its segment: minutes floor(t/60)
\* padded to two digits, seconds below 60.
WellFormedStamp(line, t) ==
  /\ \E c \in DOMAIN line : line[c] = ":"
  /\ LET c == ColonAt(line) IN
       /\ line[1] = "["
       /\ SubSeq(line, 2, c - 1) = ZeroPad(DigitsOf(t \div (60 * TicksPerSecond)), 2)
       /\ Len(line) >= c + 7
       /\ line[c + 3] = "."
       /\ line[c + 7] = "]"
       /\ \A k \in {1, 2, 4, 5, 6} : line[c + k] \in {DigitChars[d] : d \in DOMAIN DigitChars}
       /\ 10 * DigitVal(line[c + 1]) + DigitVal(line[c + 2]) <= 59

\* C15: every line of a transcript starts with "[MM:SS.mmm]", MM being
\* floor(seconds/60) on two digits and SS.mmm the remainder, a value from
\* 00.000 to 59.999; a start of 65.25 seconds is stamped "[01:05.250]".
C15_TimestampFormat ==
  \A i \in SuccessfulAttempts : \A j \in 1..attempts[i].n :
    LET t == SegmentStarts[attempts[i].pool][j]
        line == attempts[i].result.transcript[j]
    IN /\ WellFormedStamp(line, t)
       /\ t = 65 * TicksPerSecond + TicksPerSecond \div 4 =>
            SubSeq(line, 1, 11) = <<"[", "0", "1", ":", "0", "5", ".", "2", "5", "0", "]">>

\* The (device, model size, compute type) of the attempts made so far.
ProfilesUsed ==
  {<<attempts[i].device, attempts[i].model_size, attempts[i].compute_type>> : i \in DOMAIN attempts}

\* C16 as stated: every attempt runs with (cuda, medium, float16) or with
\* (cpu, base, full-precision float); int8 is never used on the CPU path.
C16_PolicyTableFullPrecision ==
  /\ ProfilesUsed \subseteq {<<"cuda", "medium", "float16">>, <<"cpu", "base", "float32">>}
  /\ \A i \in DOMAIN attempts : attempts[i].device = "cpu" => attempts[i].compute_type # "int8"

\* C16 amended: every attempt, first or retry, runs with (cuda, medium,
\* float16) or with (cpu, base, int8), and the result it returns names the
\* same three values.
C16_PolicyTable ==
  /\ ProfilesUsed \subseteq {<<"cuda", "medium", "float16">>, <<"cpu", "base", "int8">>}
  /\ \A i \in DOMAIN attempts :
       attempts[i].kind # "interrupted" =>
         /\ attempts[i].result.device = attempts[i].device
         /\ attempts[i].result.model_size = attempts[i].model_size
         /\ attempts[i].result.compute_type = attempts[i].compute_type
  /\ Len(attempts) = 2 => attempts[2].device = "cpu"

\* Both rows of the table were used in one run.
C16_Witness ==
  /\ pc = "done"
  /\ ProfilesUsed = {<<"cuda", "medium", "float16">>, <<"cpu", "base", "int8">>}
  /\ attempts[2].kind = "ok"

\* The three categories of a transcription error, by their message prefix.
InvalidFormat(msg) == <<"Invalid", "audio", "file format", "Original error:">> \o msg
DecodeFailure(msg) == <<"Audio", "decoding failed - file may be corrupted:">> \o msg
TranscriptionFailure(msg) == <<"Transcription error:">> \o msg

\* The message speaks of an index out of range.
IsIndexError(msg) ==
  Contains(msg, "tuple index out of range") \/ Contains(msg, "list index out of range")

\* C17: the error of an attempt whose transcription call raised is the
\* InvalidFormat message if the exception message speaks of an index out of
\* range, else the DecodeFailure message if it mentions "audio" or "decode"
\* in any case, else the TranscriptionFailure message, whatever the type of
\* the exception; the raw message alone never is the error.
C17_ThreeCategories ==
  \A i \in DOMAIN attempts :
    attempts[i].kind = "transcribe_fail" =>
      LET m == attempts[i].msg
          e == attempts[i].result.error
      IN /\ e = IF IsIndexError(m) THEN InvalidFormat(m)
                ELSE IF Contains(Lower(m), "audio") \/ Contains(Lower(m), "decode")
                     THEN DecodeFailure(m)
                     ELSE TranscriptionFailure(m)
         /\ e # m

\* The record of the last attempt made.
LastAttempt == attempts[Len(attempts)]

\* C18: a run that ends normally prints the result of its last attempt and
\* of no other: every field of that result, with the device, compute type
\* and model size that attempt ran with; the transcript file carries the
\* same three values and the transcript of that attempt.  After a retry
\* the error of the first attempt is not the error printed.
C18_LastAttemptAuthoritative ==
  CompletedNormally =>
    LET out == stdout[1]
        res == LastAttempt.result
    IN /\ DOMAIN out \ {"output_file"} = DOMAIN res
       /\ \A k \in DOMAIN res : out[k] = res[k]
       /\ out.device = LastAttempt.device
       /\ out.compute_type = LastAttempt.compute_type
       /\ out.model_size = LastAttempt.model_size
       /\ transcript_file # NoFile =>
            /\ res.success
            /\ transcript_file.device = LastAttempt.device
            /\ transcript_file.compute_type = LastAttempt.compute_type
            /\ transcript_file.model_size = LastAttempt.model_size
            /\ transcript_file.complete => transcript_file.body = res.transcript
       /\ Len(attempts) = 2 =>
            /\ out.device = "cpu"
            /\ out # attempts[1].result
            /\ "error" \in DOMAIN out => out.error = attempts[2].result.error

\* A retry failed with a message of its own; that one is printed.
C18_Witness ==
  /\ pc = "done"
  /\ CompletedNormally
  /\ Len(attempts) = 2
  /\ ~stdout[1].success
  /\ stdout[1].error # attempts[1].result.error
  /\ stdout[1].device = "cpu"

\* The line the aggregation makes of the j-th segment of a stream.
ExpectedLine(pool, j) ==
  FormatTimestamp(SegmentStarts[pool][j]) \o <<" ">> \o Strip(SegmentTexts[pool][j])

\* C19: an attempt reads the segments of its own stream once each, front
\* to back; a success over N >= 1 segments has N lines in segment order,
\* each the stamp of its segment, a space and the trimmed text (the
\* transcript as a whole being trimmed at its end), and segment_count N.
C19_SegmentsConsumedOnce ==
  \A i \in DOMAIN attempts :
    LET a == attempts[i] IN
    /\ a.reads = [j \in 1..Len(a.reads) |-> j]
    /\ a.kind \in {"ok", "segment_fail"} => Len(a.reads) = a.n
    /\ (a.kind = "ok" /\ a.n >= 1) =>
         /\ Len(a.result.transcript) = a.n
         /\ a.result.segment_count = a.n
         /\ \A j \in 1..a.n :
              a.result.transcript[j] =
                IF j = a.n THEN Strip(ExpectedLine(a.pool, j)) ELSE ExpectedLine(a.pool, j)

\* The first attempt failed in its segment loop after one segment; the
\* retry read its own stream from the start.
C19_Witness ==
  /\ Len(attempts) = 2
  /\ attempts[1].kind = "segment_fail"
  /\ attempts[1].n >= 1
  /\ attempts[2].kind = "ok"
  /\ attempts[2].pool = "b"
  /\ attempts[2].n >= 2
  /\ attempts[2].reads = <<1, 2>>

\* C20: a failure inside save_transcription does not reach the handler of
\* main; after a success the printed result is a success, with output_file
\* exactly when the transcript file was written in full, and that path is
\* made of the base name of the original input, also when the executor
\* read the extracted file.
C20_SaveNeverRaises ==
  /\ handler = "exception" => pc \in {"finally", "done"} /\ Len(attempts) = 0
  /\ "output_file" \in DOMAIN result => result.success
  /\ transcript_file # NoFile => transcript_file.path = OutputPath(input.name)
  /\ (CompletedNormally /\ LastAttempt.result.success) =>
       /\ stdout[1].success
       /\ "output_file" \in DOMAIN stdout[1] <=>
            (transcript_file # NoFile /\ transcript_file.complete)
       /\ "output_file" \in DOMAIN stdout[1] =>
            /\ stdout[1].output_file = OutputPath(input.name)
            /\ stdout[1].output_file.base = BaseName(input.name)
            /\ stdout[1].output_file.base # BaseName(TempName)

\* The executor read the extracted file, the write of the transcript
\* failed part-way, and the success was printed without output_file.
C20_Witness ==
  /\ pc = "done"
  /\ CompletedNormally
  /\ file_to_transcribe = "tmp"
  /\ stdout[1].success
  /\ "output_file" \notin DOMAIN stdout[1]
  /\ transcript_file # NoFile
  /\ ~transcript_file.complete

\* The attempts that returned a result (they were not interrupted).
ReturnedAttempts == {i \in DOMAIN attempts : attempts[i].kind # "interrupted"}

SuccessKeys == {"transcript", "language", "language_probability", "segment_count"}

\* C21: the result an attempt returns is either a success with transcript,
\* language, language confidence and segment_count and without error, or a
\* failure with error and without transcript, language and segment_count;
\* a printed result has output_file only if it is a success.
C21_ResultShapes ==
  /\ \A i \in ReturnedAttempts :
       LET res == attempts[i].result IN
       IF res.success
       THEN SuccessKeys \subseteq DOMAIN res /\ "error" \notin DOMAIN res
       ELSE /\ "error" \in DOMAIN res
            /\ DOMAIN res \cap {"transcript", "language", "segment_count"} = {}
  /\ \A k \in DOMAIN stdout : "output_file" \in DOMAIN stdout[k] => stdout[k].success

\* Both shapes in one run: a failure on the accelerator, then a success of
\* the retry printed with output_file.
C21_Witness ==
  /\ pc = "done"
  /\ Len(attempts) = 2
  /\ ~attempts[1].result.success
  /\ attempts[2].result.success
  /\ "output_file" \in DOMAIN stdout[1]

\* C22: while the executor can still be given the extracted file, that is
\* until the run has ended, the file is on disk; it is removed only when the
\* result has been printed.
C22_TempFileOutlivesAttempts ==
  /\ (file_to_transcribe = "tmp" /\ pc # "done") => temp_disk = "nonempty"
  /\ (file_to_transcribe = "tmp" /\ temp_disk = "absent") => pc = "done" /\ Len(stdout) = 1
  /\ \A i \in DOMAIN attempts : attempts[i].file = file_to_transcribe

\* A retry about to start on the extracted file, which is still there.
C22_Witness ==
  /\ pc = "attempt2"
  /\ Len(attempts) = 1
  /\ attempts[1].file = "tmp"
  /\ file_to_transcribe = "tmp"
  /\ temp_disk = "nonempty"

\* The attempts whose segment loop failed.
SegmentFailures == {i \in DOMAIN attempts : attempts[i].kind = "segment_fail"}

\* C23: an attempt whose segment loop fails after k segments returns the
\* failure "Segment processing failed: ..." without a transcript; a
\* transcript file on disk then is that of a later attempt that succeeded.
C23_PartialTranscriptDiscarded ==
  \A i \in SegmentFailures :
    LET res == attempts[i].result IN
    /\ ~res.success
    /\ res.error = <<"Segment processing failed:">> \o attempts[i].msg
    /\ "transcript" \notin DOMAIN res
    /\ Len(attempts[i].reads) = attempts[i].n
    /\ transcript_file # NoFile =>
         /\ i < Len(attempts)
         /\ LastAttempt.result.success
         /\ transcript_file.complete => transcript_file.body = LastAttempt.result.transcript
    /\ (CompletedNormally /\ i = Len(attempts)) => stdout[1] = res

\* The loop failed after a segment was aggregated; the run ended with the
\* failure printed and no transcript file.
C23_Witness ==
  /\ pc = "done"
  /\ CompletedNormally
  /\ Len(attempts) = 1
  /\ 1 \in SegmentFailures
  /\ attempts[1].n >= 1
  /\ transcript_file = NoFile
  /\ ~stdout[1].success

\* C24: whatever the run does, the path of the input file holds what it
\* held before the run.
C24_InputUnchanged ==
  InputOnDisk = IF input.exists THEN "original" ELSE "absent"

====
